---- MODULE Spec2Model ----
(***************************************************************************)
(* Order creation after payment confirmation (routes/payment.py), the cart *)
(* it consumes (routes/cart.py) and the confirmation e-mail it schedules   *)
(* (services/email_service.py), over the tables of models/.                *)
(*                                                                         *)
(* The database is modelled as its committed tables.  Every request owns a *)
(* session whose flushed but uncommitted writes (txn) are invisible to the *)
(* other requests until db.commit(), and are discarded by db.rollback().   *)
(* Float columns are held as exact fixed-point numbers with two decimals.  *)
(***************************************************************************)
EXTENDS Integers, Sequences, FiniteSets, TLC

VARIABLES
    cartItems,      \* table cart_items: committed rows
    nextCartId,     \* cart_items.id sequence
    adds,           \* number of add_to_cart requests served
    orders,         \* table orders: committed rows
    orderItems,     \* table order_items: committed rows
    nextOrderId,    \* orders.id sequence
    req,            \* per request of submit_order: its position and locals
    lastResponse,   \* the response submit_order sent last
    calls,          \* number of submit_order requests received
    scheduled,      \* background tasks handed to the framework with a response
    emailLog,       \* outcome of every confirmation e-mail delivery attempt
    emailIn,        \* inputs of the customer-contact resolution under check
    emailOut,       \* its result
    now,            \* the clock datetime.now() and datetime.utcnow() read
    statusHistory,  \* table order_status_history: committed rows
    sessions,       \* the checkout sessions created at the payment processor
    prefs,          \* table notification_preferences: the row of each user
    defaults,       \* NotificationPreferenceManager.DEFAULT_PREFERENCES
    prefOut,        \* the answer of the last notification operation
    readOut,        \* the answer of the last request that reads orders
    tasks,          \* notification tasks created and not yet run
    endedRequests,  \* the sessions of the requests whose handler has returned
    taskLog,        \* the session the notification task that ran last read through
    intents         \* the PaymentIntents created at the payment processor

vars == <<cartItems, nextCartId, adds, orders, orderItems, nextOrderId, req,
          lastResponse, calls, scheduled, emailLog, emailIn, emailOut,
          now, statusHistory, sessions, prefs, defaults, prefOut, readOut,
          tasks, endedRequests, taskLog, intents>>

\* the variables of the order status operations
statusVars == <<now, statusHistory, sessions>>

\* the variables of the notification operations
prefVars == <<prefs, defaults, prefOut>>

\* the variable of the requests that read orders
readVars == <<readOut>>

\* the variables of the deferred notification work
taskVars == <<tasks, endedRequests, taskLog>>

\* the variable of create_payment_intent
intentVars == <<intents>>

----------------------------------------------------------------------------
\* Bounds of the model

MaxAdds == 2
MaxCalls == 2

\* Program constants

SuffixLen == 8
TaxRatePercent == 8

----------------------------------------------------------------------------
\* Python values

\* None is held as the string "None"; None and the empty string are falsy.
Truthy(v) == v \notin {"None", ""}

\* Python's  a or b
Or(a, b) == IF Truthy(a) THEN a ELSE b

Max(a, b) == IF a > b THEN a ELSE b

----------------------------------------------------------------------------
\* Static tables

\* users: clerk_id unique, email NOT NULL (an empty string satisfies it)
UserRows ==
    { [id |-> 1, clerk_id |-> "user_a", email |-> "a@db"],
      [id |-> 2, clerk_id |-> "user_b", email |-> ""] }

\* the subject claims a verified token can carry; user_x has no users row
Subs == {"user_a", "user_b", "user_x"}

\* products.price, integer cents
ProductPrice == (1 :> 2000) @@ (2 :> 1500)
Products == DOMAIN ProductPrice

----------------------------------------------------------------------------
\* Payment intents (payment processor) and order numbers

\* Strings that are sliced are sequences of one-character strings.
PI_A == <<"p", "i", "2", "8", "a", "3", "t", "q", "P", "a">>
PI_B == <<"p", "j", "2", "8", "A", "3", "T", "Q", "p", "A">>
PI_C == <<"p", "i", "9", "9", "z", "z", "z", "z", "z", "z">>
IntentIds == {PI_A, PI_B, PI_C}

\* what stripe.PaymentIntent.retrieve can answer; "error" is a StripeError
RetrieveOutcomes == {"succeeded", "requires_action", "error"}

\* str.upper() on one character
UpperChar(c) ==
    CASE c = "a" -> "A" [] c = "p" -> "P" [] c = "q" -> "Q" [] c = "t" -> "T"
      [] c = "i" -> "I" [] c = "j" -> "J" [] c = "z" -> "Z"
      [] OTHER -> c

Upper(s) == [k \in 1..Len(s) |-> UpperChar(s[k])]

\* s[-n:]
Last(s, n) == SubSeq(s, Max(1, Len(s) - n + 1), Len(s))

\* f"ORD-{intent.id[-8:].upper()}"
OrderNumberNoPrefix(intent_id) == Upper(Last(intent_id, SuffixLen))
OrderNumber(intent_id) == <<"O", "R", "D", "-">> \o OrderNumberNoPrefix(intent_id)

----------------------------------------------------------------------------
\* Customer-contact resolution (submit_order, "ROBUST EMAIL DETECTION")

\* the e-mail carried by the token payload `user`
IdentityEmail(user) ==
    Or(user.email,
       Or(user.email_address,
          Or(user.emailAddress,
             Or(user.primaryEmailAddress,
                IF user.email_addresses # <<>>
                THEN user.email_addresses[1].email_address
                ELSE "None"))))

\* address.get('email') or address.get('email_address')
AddressEmail(address) == Or(address.email, address.email_address)

ResolveEmailLastWins(user, db_email, shipping_address, billing_address) ==
    LET c1 == IdentityEmail(user)
        c2 == IF ~Truthy(c1) THEN db_email ELSE c1
        c3 == IF ~Truthy(c2) /\ shipping_address.nonempty
              THEN AddressEmail(shipping_address) ELSE c2
        c4 == IF billing_address.nonempty /\ Truthy(AddressEmail(billing_address))
              THEN AddressEmail(billing_address) ELSE c3
    IN  c4

ResolveCustomerEmail(user, db_email, shipping_address, billing_address) ==
    LET c1 == IdentityEmail(user)
        c2 == IF ~Truthy(c1) THEN db_email ELSE c1
        c3 == IF ~Truthy(c2) /\ shipping_address.nonempty
              THEN AddressEmail(shipping_address) ELSE c2
        c4 == IF ~Truthy(c3) /\ billing_address.nonempty
              THEN AddressEmail(billing_address) ELSE c3
    IN  c4

\* a dict without the e-mail keys, as a falsy ({} or None) or a truthy value
NoAddress == [nonempty |-> FALSE, email |-> "None", email_address |-> "None"]
PlainAddress == [nonempty |-> TRUE, email |-> "None", email_address |-> "None"]

\* a token payload that carries no e-mail claim
PlainToken ==
    [email |-> "None", email_address |-> "None", emailAddress |-> "None",
     primaryEmailAddress |-> "None", email_addresses |-> <<>>]

TokenPayloads ==
    [email : {"None", "", "id1@tok"},
     email_address : {"None", "id2@tok"},
     emailAddress : {"None", "id3@tok"},
     primaryEmailAddress : {"None", "", "id4@tok"},
     email_addresses : {<<>>} \cup
        {<<[email_address |-> e]>> : e \in {"None", "", "id5@tok"}}]

ShippingAddresses ==
    {NoAddress} \cup
    [nonempty : {TRUE}, email : {"None", "", "s1@ship"},
     email_address : {"None", "", "s2@ship"}]

BillingAddresses ==
    {NoAddress} \cup
    [nonempty : {TRUE}, email : {"None", "", "b1@bill"},
     email_address : {"None", "", "b2@bill"}]

EmailInputs ==
    [user : TokenPayloads, db_email : {"", "a@db"},
     shipping_address : ShippingAddresses, billing_address : BillingAddresses]

NoEmailInput ==
    [user |-> PlainToken, db_email |-> "",
     shipping_address |-> NoAddress, billing_address |-> NoAddress]

----------------------------------------------------------------------------
\* Rows and request records

\* a Python number stored in a Float column (fixed point, two decimals)
Float(n) == n * 100

\* subtotal * 0.08 as a Float
Tax(subtotal) == subtotal * TaxRatePercent

SumLinesCount(rows) == Cardinality(rows)

RECURSIVE SumLines(_)
\* sum(item.product.price * item.quantity for item in cart_items)
SumLines(rows) ==
    IF rows = {} THEN 0
    ELSE LET c == CHOOSE x \in rows : TRUE
         IN  ProductPrice[c.product_id] * c.quantity + SumLines(rows \ {c})

\* CartItemRequest.quantity, as the client sends it
Quantities == {1}

\* shipping_method.get('price', 0), as the client sends it
ShippingPrices == {0, 15}

\* the token payload and addresses the order flow is driven with; the
\* contact resolution is exercised over EmailInputs by SpecEmail
Contacts ==
    [user : {PlainToken},
     shipping_address : {PlainAddress},
     billing_address : {NoAddress}]

\* the requests of submit_order that can be in progress at once
Reqs == {"r1", "r2"}

EmptyTxn == [orders |-> {}, items |-> {}, deleted |-> {}]

\* lineno is the line of submit_order the traceback of the exception names
NoExc == [type |-> "None", status_code |-> 0, detail |-> "None", lineno |-> 0]

NoResponse ==
    [success |-> FALSE, status_code |-> 0, detail |-> "None", cause |-> "None",
     confirmation_email_sent |-> FALSE, order_id |-> 0,
     customer_email |-> "None"]

\* cleared records the cart rows the request's commit removed
IdleReq ==
    [pc |-> "idle", user_id |-> 0, intent_status |-> "None",
     cart_items |-> {}, order |-> {}, customer_email |-> "None",
     txn |-> EmptyTxn, exc |-> NoExc, cleared |-> {}]

\* Order(...) as submit_order builds it; id is assigned by the flush.
\* A DateTime column holds a reading of the clock, or 0 for NULL.
NewOrder(sub, intent_id, cart, shipping_cost, customer_email) ==
    LET subtotal == SumLines(cart)
        tax == Tax(subtotal)
        total == Float(subtotal) + tax + Float(shipping_cost)
    IN  [id |-> 0,
         order_number |-> OrderNumber(intent_id),
         user_id |-> sub,
         total_price |-> total,
         status |-> "confirmed",
         customer_email |-> customer_email,
         guest_email |-> "None",
         subtotal |-> Float(subtotal),
         tax_amount |-> tax,
         shipping_amount |-> Float(shipping_cost),
         discount_amount |-> 0,
         stripe_payment_intent_id |-> intent_id,
         payment_status |-> "completed",
         confirmation_email_sent |-> FALSE,
         updated_at |-> now,
         shipped_at |-> 0,
         delivered_at |-> 0]

\* OrderItem(...) built from one cart row
NewOrderItem(order_id, cart_item) ==
    [order_id |-> order_id,
     cart_item_id |-> cart_item.id,
     product_id |-> cart_item.product_id,
     unit_price |-> Float(ProductPrice[cart_item.product_id]),
     quantity |-> cart_item.quantity,
     line_total |-> Float(ProductPrice[cart_item.product_id] * cart_item.quantity)]

UserCart(user_id) == {c \in cartItems : c.user_id = user_id}

PaymentConfirmedAlways(status) == TRUE

\* if intent.status != 'succeeded': raise
PaymentConfirmed(status) == status = "succeeded"

CartIsEmptyNever(cart) == FALSE

\* if not cart_items: raise
CartIsEmpty(cart) == cart = {}

ShouldNotifyAlways(customer_email) == TRUE

\* if customer_email: schedule the confirmation
ShouldNotify(customer_email) == Truthy(customer_email)

----------------------------------------------------------------------------
\* Database session

UniqueViolationNever(order_number) == FALSE

\* unique index on orders.order_number: a committed row holds the number
UniqueViolation(order_number) ==
    \E o \in orders : o.order_number = order_number

\* an uncommitted INSERT of the same number by another session holds the
\* index entry: the INSERT waits for that transaction to end
IndexHeld(r, order_number) ==
    \E r2 \in Reqs \ {r} :
        \E o \in req[r2].txn.orders : o.order_number = order_number

\* rows deleted by another session that has not ended are locked
RowsLocked(r, ids) ==
    \E r2 \in Reqs \ {r} : req[r2].txn.deleted \cap ids # {}

\* db.commit(): the session's writes reach the tables
TablesAfterCommit(txn) ==
    [orders |-> orders \cup txn.orders,
     orderItems |-> orderItems \cup txn.items,
     cartItems |-> {c \in cartItems : c.id \notin txn.deleted}]

TablesAfterRollbackKept(txn) ==
    [orders |-> orders \cup txn.orders,
     orderItems |-> orderItems \cup txn.items,
     cartItems |-> {c \in cartItems : c.id \notin txn.deleted}]

\* db.rollback(): the session's writes are discarded
TablesAfterRollback(txn) ==
    [orders |-> orders, orderItems |-> orderItems, cartItems |-> cartItems]

DBError(detail) ==
    [type |-> "DBError", status_code |-> 0, detail |-> detail, lineno |-> 0]

HTTPException(status_code, detail) ==
    [type |-> "HTTPException", status_code |-> status_code, detail |-> detail,
     lineno |-> 0]

StripeError(detail) ==
    [type |-> "StripeError", status_code |-> 0, detail |-> detail, lineno |-> 0]

\* the exception as raised by the statement at line lineno
At(exc, lineno) == [exc EXCEPT !.lineno = lineno]

Raise(r, exc) == req' = [req EXCEPT ![r].pc = "except", ![r].exc = exc]

\* the HTTP error the except clauses of submit_order answer with
ErrorResponse(exc) ==
    IF exc.type = "StripeError"
    THEN [NoResponse EXCEPT !.status_code = 400, !.detail = "Stripe error",
                            !.cause = exc.detail]
    ELSE [NoResponse EXCEPT !.status_code = 500,
                            !.detail = "Order submission failed",
                            !.cause = exc.detail]

----------------------------------------------------------------------------
\* Notification preferences: models/notification_preferences.py.
\* A JSON document is a function from its keys to its values.

\* dict.get(key, default)
Get(doc, key, default) == IF key \in DOMAIN doc THEN doc[key] ELSE default

\* doc[key] = value
Put(doc, key, value) ==
    [k \in DOMAIN doc \cup {key} |-> IF k = key THEN value ELSE doc[k]]

\* doc.update(other)
Update(doc, other) ==
    [k \in DOMAIN doc \cup DOMAIN other |->
        IF k \in DOMAIN other THEN other[k] ELSE doc[k]]

\* {}
EmptyDoc == [k \in {} |-> FALSE]

\* the truth value of a dict
NonEmpty(doc) == DOMAIN doc # {}

Digits == {"0", "1", "2", "3", "4", "5", "6", "7", "8", "9"}

\* int() of one digit
DigitValue(c) ==
    CASE c = "0" -> 0 [] c = "1" -> 1 [] c = "2" -> 2 [] c = "3" -> 3
      [] c = "4" -> 4 [] c = "5" -> 5 [] c = "6" -> 6 [] c = "7" -> 7
      [] c = "8" -> 8 [] c = "9" -> 9

IsNumber(s) == Len(s) > 0 /\ \A k \in 1..Len(s) : s[k] \in Digits

RECURSIVE IntOf(_)
\* int(s) for a string of digits
IntOf(s) ==
    IF Len(s) = 0 THEN 0
    ELSE 10 * IntOf(SubSeq(s, 1, Len(s) - 1)) + DigitValue(s[Len(s)])

\* the time strings, as the characters of HH:MM
T2200 == <<"2", "2", ":", "0", "0">>
T0800 == <<"0", "8", ":", "0", "0">>
T1400 == <<"1", "4", ":", "0", "0">>
T1600 == <<"1", "6", ":", "0", "0">>
T2500 == <<"2", "5", ":", "0", "0">>
T9pm == <<"9", "p", "m">>

\* re.match(r'^([01]?[0-9]|2[0-3]):[0-5][0-9]$', s)
MatchesTimePattern(s) ==
    /\ Len(s) \in {4, 5}
    /\ s[Len(s) - 2] = ":"
    /\ s[Len(s) - 1] \in {"0", "1", "2", "3", "4", "5"}
    /\ s[Len(s)] \in Digits
    /\ \/ Len(s) = 4 /\ s[1] \in Digits
       \/ Len(s) = 5 /\ s[1] \in {"0", "1"} /\ s[2] \in Digits
       \/ Len(s) = 5 /\ s[1] = "2" /\ s[2] \in {"0", "1", "2", "3"}

\* the phone numbers of the requests
NoPhone == <<>>
ShortPhone == <<"5", "5", "5", "-", "1", "2", "3", "4">>
GoodPhone == <<"5", "5", "5", "-", "1", "2", "3", "-", "4", "5", "6", "7">>

\* phone.replace(" ", "").replace("-", "").replace("(", "").replace(")", "")
NormalizePhone(phone) == SelectSeq(phone, LAMBDA c : c \notin {" ", "-", "(", ")"})

MinPhoneLen == 10

\* re.match(r'^\+?1?[0-9]{10,11}$', phone)
MatchesPhonePattern(phone) ==
    LET rest == IF Len(phone) > 0 /\ phone[1] = "+"
                THEN SubSeq(phone, 2, Len(phone)) ELSE phone
    IN  /\ IsNumber(rest)
        /\ \/ Len(rest) \in {10, 11}
           \/ Len(rest) = 12 /\ rest[1] = "1"

DEFAULT_PREFERENCES ==
    [email_notifications |->
        [order_confirmations |-> TRUE, order_updates |-> TRUE,
         shipping_notifications |-> TRUE, delivery_confirmations |-> TRUE,
         payment_receipts |-> TRUE, returns_refunds |-> TRUE],
     marketing_notifications |->
        [new_products |-> FALSE, sales_promotions |-> FALSE,
         exclusive_offers |-> TRUE, collection_launches |-> FALSE,
         wishlist_updates |-> TRUE, price_drops |-> TRUE,
         abandoned_cart |-> TRUE],
     account_notifications |->
        [security_alerts |-> TRUE, password_changes |-> TRUE,
         profile_updates |-> FALSE, privacy_updates |-> TRUE],
     sms_notifications |->
        [enabled |-> FALSE, phone_number |-> NoPhone,
         order_updates |-> FALSE, shipping_alerts |-> FALSE,
         delivery_notifications |-> FALSE, security_alerts |-> TRUE],
     notification_frequency |-> "immediate",
     quiet_hours |->
        [enabled |-> FALSE, start_time |-> T2200, end_time |-> T0800,
         timezone |-> "America/New_York"]]

REQUIRED_NOTIFICATIONS ==
    [email_notifications |-> {"order_confirmations", "payment_receipts"},
     account_notifications |-> {"security_alerts", "password_changes"}]

\* the JSON columns of a notification_preferences row
Categories ==
    {"email_notifications", "marketing_notifications",
     "account_notifications", "sms_notifications", "quiet_hours"}

\* _validate_preferences: the required keys a document carries are forced
ForceRequired(category, doc) ==
    IF category \in DOMAIN REQUIRED_NOTIFICATIONS
    THEN [k \in DOMAIN doc |->
            IF k \in REQUIRED_NOTIFICATIONS[category] THEN TRUE ELSE doc[k]]
    ELSE doc

\* _validate_preferences: SMS is disabled without a long enough number
ValidSms(sms) ==
    IF Get(sms, "enabled", FALSE)
    THEN LET phone == Get(sms, "phone_number", NoPhone)
         IN  IF phone = NoPhone \/ Len(NormalizePhone(phone)) < MinPhoneLen
             THEN Put(sms, "enabled", FALSE)
             ELSE sms
    ELSE sms

\* _validate_preferences: malformed times of an enabled window are reset
ValidQuietHours(quiet) ==
    IF Get(quiet, "enabled", FALSE)
    THEN LET s1 == IF MatchesTimePattern(Get(quiet, "start_time", T2200))
                   THEN quiet ELSE Put(quiet, "start_time", T2200)
         IN  IF MatchesTimePattern(Get(quiet, "end_time", T0800))
             THEN s1 ELSE Put(s1, "end_time", T0800)
    ELSE quiet

ValidFrequency(frequency) ==
    IF frequency \in {"immediate", "daily", "weekly"}
    THEN frequency ELSE "immediate"

\* NotificationPreferenceManager._validate_preferences
ValidatePreferences(data) ==
    [email_notifications |->
        ForceRequired("email_notifications", data.email_notifications),
     marketing_notifications |-> data.marketing_notifications,
     account_notifications |->
        ForceRequired("account_notifications", data.account_notifications),
     sms_notifications |-> ValidSms(data.sms_notifications),
     notification_frequency |-> ValidFrequency(data.notification_frequency),
     quiet_hours |-> ValidQuietHours(data.quiet_hours)]

\* the validators of NotificationSettingsRequest: a ValueError rejects the
\* request before the handler runs
RequestAccepted(data) ==
    /\ data.notification_frequency \in {"immediate", "daily", "weekly"}
    /\ LET sms == data.sms_notifications
           phone == Get(sms, "phone_number", NoPhone)
       IN  (Get(sms, "enabled", FALSE) /\ phone # NoPhone)
              => MatchesPhonePattern(NormalizePhone(phone))
    /\ LET quiet == data.quiet_hours
       IN  Get(quiet, "enabled", FALSE)
              => /\ MatchesTimePattern(Get(quiet, "start_time", <<>>))
                 /\ MatchesTimePattern(Get(quiet, "end_time", <<>>))

\* no row of the user in notification_preferences
NoRow == [exists |-> FALSE]

\* a row of notification_preferences holding the validated documents
PrefRow(data) ==
    [exists |-> TRUE,
     email_notifications |-> data.email_notifications,
     marketing_notifications |-> data.marketing_notifications,
     account_notifications |-> data.account_notifications,
     sms_notifications |-> data.sms_notifications,
     notification_frequency |-> data.notification_frequency,
     quiet_hours |-> data.quiet_hours]

\* NotificationPreferenceManager.check_notification_allowed, on the row found
\* for the user and the class-level defaults
CheckNotificationAllowed(row, default_prefs, notification_type, category) ==
    LET default == Get(Get(default_prefs, category, EmptyDoc),
                       notification_type, FALSE)
    IN  IF ~row.exists THEN default
        ELSE LET category_prefs == IF category \in Categories
                                   THEN row[category] ELSE EmptyDoc
             IN  IF ~NonEmpty(category_prefs) THEN default
                 ELSE Get(category_prefs, notification_type, FALSE)

\* the positions of ":" in a time string
Colons(s) == {k \in 1..Len(s) : s[k] = ":"}

\* start_hour, start_min = map(int, s.split(":")) and the range check of
\* datetime.replace; ok is FALSE where the code raises ValueError
ParseTime(s) ==
    IF Cardinality(Colons(s)) # 1 THEN [ok |-> FALSE, hour |-> 0, minute |-> 0]
    ELSE LET k == CHOOSE c \in Colons(s) : TRUE
             hh == SubSeq(s, 1, k - 1)
             mm == SubSeq(s, k + 1, Len(s))
         IN  IF IsNumber(hh) /\ IsNumber(mm)
                /\ IntOf(hh) <= 23 /\ IntOf(mm) <= 59
             THEN [ok |-> TRUE, hour |-> IntOf(hh), minute |-> IntOf(mm)]
             ELSE [ok |-> FALSE, hour |-> 0, minute |-> 0]

\* datetime.time values compare as the seconds since midnight
SecondOfDay(hour, minute, second) == hour * 3600 + minute * 60 + second

InWindowSameDayOnly(start_time, end_time, current_time_only) ==
    start_time <= current_time_only /\ current_time_only <= end_time

\* the window test of is_quiet_hours_active
InWindow(start_time, end_time, current_time_only) ==
    IF start_time > end_time
    THEN current_time_only >= start_time \/ current_time_only <= end_time
    ELSE start_time <= current_time_only /\ current_time_only <= end_time

\* NotificationPreferenceManager.is_quiet_hours_active, on the row found for
\* the user and the reading of the clock
IsQuietHoursActive(row, current_time) ==
    IF ~row.exists \/ ~NonEmpty(row.quiet_hours)
       \/ ~Get(row.quiet_hours, "enabled", FALSE)
    THEN FALSE
    ELSE LET start == ParseTime(Get(row.quiet_hours, "start_time", T2200))
             end == ParseTime(Get(row.quiet_hours, "end_time", T0800))
         IN  IF ~start.ok \/ ~end.ok THEN FALSE
             ELSE InWindow(SecondOfDay(start.hour, start.minute, 0),
                           SecondOfDay(end.hour, end.minute, 0),
                           SecondOfDay(current_time.hour, current_time.minute,
                                       current_time.second))


UserIds == {u.id : u \in UserRows}

\* no notification task has run yet
NoTaskLog == [ran |-> FALSE, session |-> 0, order_id |-> 0]

\* no request has read orders yet
NoReadOut == [op |-> "none"]

\* no notification operation has answered yet
NoPrefOut == [op |-> "none"]

----------------------------------------------------------------------------
\* Init

Init ==
    /\ cartItems = {}
    /\ nextCartId = 1
    /\ adds = 0
    /\ orders = {}
    /\ orderItems = {}
    /\ nextOrderId = 1
    /\ req = [r \in Reqs |-> IdleReq]
    /\ prefs = [u \in UserIds |-> NoRow]
    /\ defaults = DEFAULT_PREFERENCES
    /\ prefOut = NoPrefOut
    /\ readOut = NoReadOut
    /\ tasks = {}
    /\ endedRequests = {}
    /\ taskLog = NoTaskLog
    /\ intents = {}
    /\ lastResponse = NoResponse
    /\ calls = 0
    /\ scheduled = {}
    /\ emailLog = {}
    /\ emailIn = NoEmailInput
    /\ emailOut = "unset"
    /\ now = 1
    /\ statusHistory = {}
    /\ sessions = {}

----------------------------------------------------------------------------
\* POST /cart/add

AddToCart(sub, product_id, quantity) ==
    /\ adds < MaxAdds
    /\ adds' = adds + 1
    /\ \E db_user \in {u \in UserRows : u.clerk_id = sub} :
        LET existing == {c \in cartItems :
                            c.user_id = db_user.id /\ c.product_id = product_id}
        IN  IF existing # {}
            THEN \E e \in existing :
                    /\ ~RowsLocked("none", {e.id})
                    /\ cartItems' = (cartItems \ {e}) \cup
                          {[e EXCEPT !.quantity = e.quantity + quantity]}
                    /\ UNCHANGED nextCartId
            ELSE /\ cartItems' = cartItems \cup
                      {[id |-> nextCartId, user_id |-> db_user.id,
                        product_id |-> product_id, quantity |-> quantity]}
                 /\ nextCartId' = nextCartId + 1
    /\ UNCHANGED <<orders, orderItems, nextOrderId, req, lastResponse, calls,
                   scheduled, emailLog, emailIn, emailOut, statusVars,
                   prefVars, readVars, taskVars, intentVars>>

----------------------------------------------------------------------------
\* POST /payment/submit-order

\* lines 117-234: user lookup, payment check, cart read, totals, contact
SubmitOrderBegin(r, sub, intent_id, outcome, shipping_cost, contact) ==
    /\ req[r].pc = "idle"
    /\ calls < MaxCalls
    /\ calls' = calls + 1
    /\ LET found == {u \in UserRows : u.clerk_id = sub}
       IN  IF found = {}
           THEN req' = [req EXCEPT ![r] =
                    [IdleReq EXCEPT !.pc = "except",
                                    !.exc = At(HTTPException(404, "User not found"),
                                                123)]]
           ELSE LET db_user == CHOOSE u \in found : TRUE
                    cart == UserCart(db_user.id)
                    email == ResolveCustomerEmail(contact.user, db_user.email,
                                contact.shipping_address, contact.billing_address)
                    known == [IdleReq EXCEPT !.user_id = db_user.id]
                    got == [known EXCEPT !.intent_status = outcome]
                IN  IF outcome = "error"
                    THEN req' = [req EXCEPT ![r] =
                             [known EXCEPT !.pc = "except",
                                 !.exc = At(StripeError("No such payment_intent"),
                                            127)]]
                    ELSE IF ~PaymentConfirmed(outcome)
                    THEN req' = [req EXCEPT ![r] =
                             [got EXCEPT !.pc = "except",
                                 !.exc = At(HTTPException(400,
                                               "Payment not successful"), 130)]]
                    ELSE IF CartIsEmpty(cart)
                    THEN req' = [req EXCEPT ![r] =
                             [got EXCEPT !.pc = "except",
                                 !.exc = At(HTTPException(400, "Cart is empty"),
                                            139)]]
                    ELSE req' = [req EXCEPT ![r] =
                             [got EXCEPT !.pc = "flush",
                                 !.cart_items = cart,
                                 !.customer_email = email,
                                 !.order = {NewOrder(sub, intent_id, cart,
                                                     shipping_cost, email)}]]
    /\ UNCHANGED <<cartItems, nextCartId, adds, orders, orderItems, nextOrderId,
                   lastResponse, scheduled, emailLog, emailIn, emailOut, statusVars,
                   prefVars, readVars, taskVars, intentVars>>

TheOrder(r) == CHOOSE o \in req[r].order : TRUE

\* lines 236-237: db.add(order); db.flush()
SubmitOrderFlush(r) ==
    /\ req[r].pc = "flush"
    /\ LET order == TheOrder(r)
       IN  /\ ~IndexHeld(r, order.order_number)
           /\ \/ /\ UniqueViolation(order.order_number)
                 /\ Raise(r, At(DBError("IntegrityError"), 237))
                 /\ UNCHANGED nextOrderId
              \/ /\ ~UniqueViolation(order.order_number)
                 /\ Raise(r, At(DBError("OperationalError"), 237))
                 /\ UNCHANGED nextOrderId
              \/ /\ ~UniqueViolation(order.order_number)
                 /\ LET inserted == [order EXCEPT !.id = nextOrderId]
                    IN  req' = [req EXCEPT ![r].pc = "items",
                                           ![r].order = {inserted},
                                           ![r].txn.orders = {inserted}]
                 /\ nextOrderId' = nextOrderId + 1
    /\ UNCHANGED <<cartItems, nextCartId, adds, orders, orderItems, lastResponse, calls,
                   scheduled, emailLog, emailIn, emailOut, statusVars,
                   prefVars, readVars, taskVars, intentVars>>

\* lines 240-265: the OrderItem rows, flushed by the cart DELETE's autoflush,
\* then DELETE FROM cart_items WHERE user_id = db_user.id
SubmitOrderItemsAndClear(r) ==
    /\ req[r].pc = "items"
    /\ LET items == {NewOrderItem(TheOrder(r).id, c) : c \in req[r].cart_items}
           targets == {c.id : c \in UserCart(req[r].user_id)}
       IN  \/ \E part \in (SUBSET items) \ {items} :
                 \* an INSERT fails after the rows of part went in
                 req' = [req EXCEPT ![r].pc = "except",
                                    ![r].exc = At(DBError("OperationalError"), 264),
                                    ![r].txn.items = part]
           \/ \* the DELETE fails
              req' = [req EXCEPT ![r].pc = "except",
                                 ![r].exc = At(DBError("OperationalError"), 264),
                                 ![r].txn.items = items]
           \/ /\ ~RowsLocked(r, targets)
              /\ req' = [req EXCEPT ![r].pc = "commit",
                                    ![r].txn.items = items,
                                    ![r].txn.deleted = targets]
    /\ UNCHANGED <<cartItems, nextCartId, adds, orders, orderItems, nextOrderId,
                   lastResponse, calls, scheduled, emailLog, emailIn, emailOut, statusVars,
                   prefVars, readVars, taskVars, intentVars>>

\* line 268: db.commit()
SubmitOrderCommit(r) ==
    /\ req[r].pc = "commit"
    /\ \/ LET after == TablesAfterCommit(req[r].txn)
          IN  /\ orders' = after.orders
              /\ orderItems' = after.orderItems
              /\ cartItems' = after.cartItems
              /\ req' = [req EXCEPT ![r].pc = "notify", ![r].txn = EmptyTxn,
                                    ![r].cleared = cartItems \ after.cartItems]
       \/ /\ Raise(r, At(DBError("OperationalError"), 268))
          /\ UNCHANGED <<orders, orderItems, cartItems>>
    /\ UNCHANGED <<nextCartId, adds, nextOrderId, lastResponse, calls, scheduled, emailLog,
                   emailIn, emailOut, statusVars,
                   prefVars, readVars, taskVars, intentVars>>

\* the success response of submit_order
OrderResponse(order, customer_email, notification_sent) ==
    [success |-> TRUE, status_code |-> 200,
     detail |-> "Order placed successfully", cause |-> "None",
     confirmation_email_sent |-> notification_sent,
     order_id |-> order.id,
     customer_email |->
        IF Truthy(customer_email) THEN customer_email ELSE "Not provided"]

\* the final commit (line 342) stores order.confirmation_email_sent
StoreFlag(order_id, value) ==
    {IF o.id = order_id THEN [o EXCEPT !.confirmation_email_sent = value]
     ELSE o : o \in orders}

\* lines 272-354: the notification block, the final commit and the response.
\* scheduled_ok is whether building order_details and add_task went through.
SubmitOrderNotify(r, scheduled_ok) ==
    /\ req[r].pc = "notify"
    /\ LET order == TheOrder(r)
           customer_email == req[r].customer_email
           notification_sent == ShouldNotify(customer_email) /\ scheduled_ok
           background_tasks ==
               IF notification_sent
               THEN {[to_email |-> customer_email,
                      order_number |-> order.order_number]}
               ELSE {}
       IN  \/ /\ orders' = StoreFlag(order.id, notification_sent)
              /\ scheduled' = scheduled \cup background_tasks
              /\ lastResponse' =
                     OrderResponse(order, customer_email, notification_sent)
              /\ req' = [req EXCEPT ![r] = IdleReq]
           \/ \* the final commit fails
              /\ Raise(r, At(DBError("OperationalError"), 342))
              /\ UNCHANGED <<orders, scheduled, lastResponse>>
    /\ UNCHANGED <<cartItems, nextCartId, adds, orderItems, nextOrderId, calls,
                   emailLog, emailIn, emailOut, statusVars,
                   prefVars, readVars, taskVars, intentVars>>

\* lines 356-363: both except clauses roll back and answer with an error;
\* the tasks of a request that raised are never run
SubmitOrderExcept(r) ==
    /\ req[r].pc = "except"
    /\ LET after == TablesAfterRollback(req[r].txn)
       IN  /\ orders' = after.orders
           /\ orderItems' = after.orderItems
           /\ cartItems' = after.cartItems
           /\ lastResponse' = ErrorResponse(req[r].exc)
           /\ req' = [req EXCEPT ![r] = IdleReq]
    /\ UNCHANGED <<nextCartId, adds, nextOrderId, calls, scheduled, emailLog, emailIn,
                   emailOut, statusVars,
                   prefVars, readVars, taskVars, intentVars>>

\* the scheduled task: EmailService.send_order_confirmation_email
RunBackgroundTask(task) ==
    /\ task \in scheduled
    /\ scheduled' = scheduled \ {task}
    /\ \E sent \in BOOLEAN :
          emailLog' = emailLog \cup
              {[to_email |-> task.to_email, order_number |-> task.order_number,
                success |-> sent]}
    /\ UNCHANGED <<cartItems, nextCartId, adds, orders, orderItems, nextOrderId, req,
                   lastResponse, calls, emailIn, emailOut, statusVars,
                   prefVars, readVars, taskVars, intentVars>>

----------------------------------------------------------------------------
\* Specification of the order flow

Next ==
    \/ \E sub \in Subs, product_id \in Products, quantity \in Quantities :
          AddToCart(sub, product_id, quantity)
    \/ \E r \in Reqs, sub \in Subs, intent_id \in IntentIds,
          outcome \in RetrieveOutcomes, shipping_cost \in ShippingPrices,
          contact \in Contacts :
          SubmitOrderBegin(r, sub, intent_id, outcome, shipping_cost, contact)
    \/ \E r \in Reqs : SubmitOrderFlush(r)
    \/ \E r \in Reqs : SubmitOrderItemsAndClear(r)
    \/ \E r \in Reqs : SubmitOrderCommit(r)
    \/ \E r \in Reqs, scheduled_ok \in BOOLEAN : SubmitOrderNotify(r, scheduled_ok)
    \/ \E r \in Reqs : SubmitOrderExcept(r)
    \/ \E task \in scheduled : RunBackgroundTask(task)

Spec == Init /\ [][Next]_vars

----------------------------------------------------------------------------
\* Specification of the customer-contact resolution alone

InitEmail ==
    /\ cartItems = {}
    /\ nextCartId = 1
    /\ adds = 0
    /\ orders = {}
    /\ orderItems = {}
    /\ nextOrderId = 1
    /\ req = [r \in Reqs |-> IdleReq]
    /\ prefs = [u \in UserIds |-> NoRow]
    /\ defaults = DEFAULT_PREFERENCES
    /\ prefOut = NoPrefOut
    /\ readOut = NoReadOut
    /\ tasks = {}
    /\ endedRequests = {}
    /\ taskLog = NoTaskLog
    /\ intents = {}
    /\ lastResponse = NoResponse
    /\ calls = 0
    /\ scheduled = {}
    /\ emailLog = {}
    /\ emailIn \in EmailInputs
    /\ emailOut = "unset"
    /\ now = 1
    /\ statusHistory = {}
    /\ sessions = {}

\* lines 152-183 applied to the inputs drawn
ResolveStep ==
    /\ emailOut = "unset"
    /\ emailOut' = ResolveCustomerEmail(emailIn.user, emailIn.db_email,
                        emailIn.shipping_address, emailIn.billing_address)
    /\ UNCHANGED <<cartItems, nextCartId, adds, orders, orderItems, nextOrderId,
                   req, lastResponse, calls, scheduled, emailLog, emailIn,
                   statusVars,
                   prefVars, readVars, taskVars, intentVars>>

NextEmail == ResolveStep

SpecEmail == InitEmail /\ [][NextEmail]_vars

----------------------------------------------------------------------------
\* Order status operations: routes/admin.py, routes/stripe_webhooks.py,
\* routes/checkout.py and update_order_status of models/order.py.
\* The notification task the admin handlers queue writes no table.

MaxNow == 4
MaxOrderId == 2

\* valid_statuses of the PUT and bulk handlers
ValidStatuses ==
    {"pending", "confirmed", "processing", "shipped", "delivered", "cancelled"}

\* the status strings the requests carry; "refunded" is no order status
StatusBodies == {"pending", "shipped", "delivered", "cancelled", "refunded"}

\* session["amount_total"] of the webhook events, in cents: the totals of the
\* sessions create_checkout_session opens
AmountTotals == {0, 1500}

\* the cart row and the Order a completed submit_order leaves behind
PlacedCartRow == [id |-> 1, user_id |-> 1, product_id |-> 1, quantity |-> 1]
PlacedOrder ==
    [NewOrder("user_a", PI_A, {PlacedCartRow}, 0, "a@db") EXCEPT !.id = 1]

\* Order(user_id, total_price=0, status="pending") of create_checkout_session;
\* the other columns take their defaults, NULL strings are empty
PendingOrder(id, sub, guest_email) ==
    [id |-> id,
     order_number |-> <<>>,
     user_id |-> sub,
     total_price |-> 0,
     status |-> "pending",
     customer_email |-> "None",
     guest_email |-> guest_email,
     subtotal |-> 0,
     tax_amount |-> 0,
     shipping_amount |-> 0,
     discount_amount |-> 0,
     stripe_payment_intent_id |-> <<>>,
     payment_status |-> "pending",
     confirmation_email_sent |-> FALSE,
     updated_at |-> now,
     shipped_at |-> 0,
     delivered_at |-> 0]

\* OrderItem(...) of create_checkout_session, from an item of the request
CheckoutOrderItem(order_id, product_id, quantity) ==
    [order_id |-> order_id,
     cart_item_id |-> 0,
     product_id |-> product_id,
     unit_price |-> Float(ProductPrice[product_id]),
     quantity |-> quantity,
     line_total |-> 0]

\* db.query(Order).filter(Order.id == order_id).first()
OrderById(order_id) == {o \in orders : o.id = order_id}

\* order.status = status; updated_at is stamped by the assignment or by the
\* column's onupdate
\* a status write that also clears the total
WithStatusRepriced(o, status) == [o EXCEPT !.status = status, !.updated_at = now, !.total_price = 0]

WithStatus(o, status) == [o EXCEPT !.status = status, !.updated_at = now]

Tick == now < MaxNow /\ now' = now + 1

InitStatus ==
    /\ now = 1
    /\ cartItems = {}
    /\ nextCartId = 2
    /\ adds = 0
    /\ orders = {PlacedOrder}
    /\ orderItems = {NewOrderItem(1, PlacedCartRow)}
    /\ nextOrderId = 2
    /\ req = [r \in Reqs |-> IdleReq]
    /\ prefs = [u \in UserIds |-> NoRow]
    /\ defaults = DEFAULT_PREFERENCES
    /\ prefOut = NoPrefOut
    /\ readOut = NoReadOut
    /\ tasks = {}
    /\ endedRequests = {}
    /\ taskLog = NoTaskLog
    /\ intents = {}
    /\ lastResponse = NoResponse
    /\ calls = 0
    /\ scheduled = {}
    /\ emailLog = {}
    /\ emailIn = NoEmailInput
    /\ emailOut = "unset"
    /\ statusHistory = {}
    /\ sessions = {}

\* cart.guest_email of a checkout request
GuestEmails == {"None", "guest@x"}

\* POST /checkout/session: the pending Order is committed before the payment;
\* a caller without a token is a guest and must name an e-mail (400 without)
\* stripe.checkout.Session.create(line_items=..., metadata={"order_id":
\* str(order.id), "user_id": user_id or "guest"}): the session names the
\* Order the handler has just created; its amount_total is the sum of
\* unit_amount * quantity over the line items, in cents
CheckoutSession(order_id, sub, items) ==
    [order_id |-> order_id,
     user_id |-> IF sub = "None" THEN "guest" ELSE sub,
     amount_total |-> SumLines({[product_id |-> i[1], quantity |-> i[2]] :
                                  i \in items})]

CreateCheckoutSession(sub, items, guest_email) ==
    /\ Tick
    /\ nextOrderId <= MaxOrderId
    /\ IF sub = "None" /\ ~Truthy(guest_email)
       THEN UNCHANGED <<orders, orderItems, nextOrderId, sessions>>
       ELSE /\ orders' = orders \cup
                  {PendingOrder(nextOrderId, sub,
                                IF sub = "None" THEN guest_email ELSE "None")}
            /\ orderItems' = orderItems \cup
                  {CheckoutOrderItem(nextOrderId, i[1], i[2]) : i \in items}
            /\ nextOrderId' = nextOrderId + 1
            /\ sessions' = sessions \cup
                  {CheckoutSession(nextOrderId, sub, items)}
    /\ UNCHANGED <<cartItems, nextCartId, adds, req, lastResponse, calls,
                   scheduled, emailLog, emailIn, emailOut, statusHistory,
                   prefVars, readVars, taskVars, intentVars>>

\* asyncio.create_task(trigger_order_status_update(db, order, old_status,
\* status)): the task holds db, the session of the request that creates it,
\* named here by the time of the request; it starts after the handler returns
StatusUpdateTask(session, order, new_status) ==
    [session |-> session, order_id |-> order.id, old_status |-> order.status,
     new_status |-> new_status]

\* PATCH /admin/orders/{order_id}: the status of the body is stored as it is
AdminUpdateOrderStatus(order_id, status) ==
    /\ Tick
    /\ orders' = {IF o.id = order_id THEN WithStatus(o, status) ELSE o :
                    o \in orders}
    /\ tasks' = tasks \cup
          {StatusUpdateTask(now, o, status) : o \in OrderById(order_id)}
    /\ endedRequests' = endedRequests \cup {now}
    /\ UNCHANGED <<cartItems, nextCartId, adds, orderItems, nextOrderId, req,
                   lastResponse, calls, scheduled, emailLog, emailIn, emailOut,
                   statusHistory, sessions, taskLog,
                   prefVars, readVars, intentVars>>

\* PUT /admin/orders/{order_id}/status: 400 unless the status is valid
UpdateOrderStatusEnhanced(order_id, status) ==
    /\ Tick
    /\ orders' = IF status \in ValidStatuses
                 THEN {IF o.id = order_id THEN WithStatus(o, status) ELSE o :
                         o \in orders}
                 ELSE orders
    /\ tasks' = IF status \in ValidStatuses
                THEN tasks \cup {StatusUpdateTask(now, o, status) :
                                    o \in OrderById(order_id)}
                ELSE tasks
    /\ endedRequests' = endedRequests \cup {now}
    /\ UNCHANGED <<cartItems, nextCartId, adds, orderItems, nextOrderId, req,
                   lastResponse, calls, scheduled, emailLog, emailIn, emailOut,
                   statusHistory, sessions, taskLog,
                   prefVars, readVars, intentVars>>

\* POST /admin/orders/bulk/status-update: one commit for all the orders found
BulkUpdateOrderStatus(order_ids, status) ==
    /\ Tick
    /\ orders' = IF status \in ValidStatuses
                 THEN {IF o.id \in order_ids THEN WithStatus(o, status) ELSE o :
                         o \in orders}
                 ELSE orders
    /\ tasks' = IF status \in ValidStatuses
                THEN tasks \cup {StatusUpdateTask(now, o, status) :
                                    o \in {x \in orders : x.id \in order_ids}}
                ELSE tasks
    /\ endedRequests' = endedRequests \cup {now}
    /\ UNCHANGED <<cartItems, nextCartId, adds, orderItems, nextOrderId, req,
                   lastResponse, calls, scheduled, emailLog, emailIn, emailOut,
                   statusHistory, sessions, taskLog,
                   prefVars, readVars, intentVars>>

\* POST /webhooks/stripe with a checkout.session.completed event whose
\* metadata names order_id and user_id: the order is updated and committed,
\* then the cart rows whose user_id equals the metadata's are deleted
StripeWebhook(order_id, user_id, amount_total) ==
    /\ Tick
    /\ OrderById(order_id) # {}
    /\ orders' = {IF o.id = order_id
                  THEN [WithStatus(o, "completed") EXCEPT
                            !.total_price = Float(amount_total)]
                  ELSE o : o \in orders}
    /\ cartItems' = {c \in cartItems : c.user_id # user_id}
    /\ UNCHANGED <<nextCartId, adds, orderItems, nextOrderId, req, lastResponse,
                   calls, scheduled, emailLog, emailIn, emailOut, statusHistory,
                   sessions, prefVars, readVars, taskVars, intentVars>>

\* OrderStatusHistory(...) of update_order_status
HistoryRow(order_id, from_status, to_status, changed_by) ==
    [id |-> Cardinality(statusHistory) + 1,
     order_id |-> order_id,
     from_status |-> from_status,
     to_status |-> to_status,
     changed_by |-> changed_by,
     created_at |-> now]

\* the special timestamp fields of update_order_status
Stamped(o, new_status) ==
    IF new_status = "shipped" THEN [o EXCEPT !.shipped_at = now]
    ELSE IF new_status = "delivered" THEN [o EXCEPT !.delivered_at = now]
    ELSE o

\* update_order_status(db_session, order_id, new_status, changed_by)
UpdateOrderStatus(order_id, new_status, changed_by) ==
    /\ Tick
    /\ LET changing == {o \in OrderById(order_id) : o.status # new_status}
       IN  /\ orders' = (orders \ changing) \cup
                 {Stamped(WithStatus(o, new_status), new_status) : o \in changing}
           /\ statusHistory' = statusHistory \cup
                 {HistoryRow(o.id, o.status, new_status, changed_by) :
                     o \in changing}
    /\ UNCHANGED <<cartItems, nextCartId, adds, orderItems, nextOrderId, req,
                   lastResponse, calls, scheduled, emailLog, emailIn, emailOut,
                   sessions, prefVars, readVars, taskVars, intentVars>>

OrderIds == 1..(MaxOrderId + 1)

NextStatus ==
    \/ \E sub \in {"user_a", "None"}, items \in {{}, {<<2, 1>>}},
          guest_email \in GuestEmails :
          CreateCheckoutSession(sub, items, guest_email)
    \/ \E order_id \in OrderIds, status \in StatusBodies :
          AdminUpdateOrderStatus(order_id, status)
    \/ \E order_id \in OrderIds, status \in StatusBodies :
          UpdateOrderStatusEnhanced(order_id, status)
    \/ \E order_ids \in SUBSET OrderIds, status \in StatusBodies :
          BulkUpdateOrderStatus(order_ids, status)
    \* the signed events are those of the sessions create_checkout_session
    \* has opened: their metadata names the Order created with the session
    \/ \E s \in sessions :
          StripeWebhook(s.order_id, s.user_id, s.amount_total)
    \/ \E order_id \in OrderIds, new_status \in StatusBodies :
          UpdateOrderStatus(order_id, new_status, "system")

SpecStatus == InitStatus /\ [][NextStatus]_vars

\* handle_order_status_updated(db, order, old_status, new_status), run by the
\* event loop once the handler that created the task has returned: the User
\* of the order is read with db.query(...) through the session the task was
\* given; the notification that follows is send_notification, which opens a
\* session of its own (SendNotification)
RunNotificationTask(t) ==
    /\ t \in tasks
    /\ tasks' = tasks \ {t}
    /\ taskLog' = [ran |-> TRUE, session |-> t.session, order_id |-> t.order_id]
    /\ UNCHANGED <<cartItems, nextCartId, adds, orders, orderItems, nextOrderId,
                   req, lastResponse, calls, scheduled, emailLog, emailIn,
                   emailOut, statusVars, prefVars, readVars, endedRequests,
                   intentVars>>

\* ---------------------------------------------------------------------------
\* The cart routes

\* CartItemRequest.quantity is a plain int: the request model bounds it nowhere
CartQuantities == {-1, 0, 1, 2}

\* the cart row of the user for the product, as update_cart and
\* remove_from_cart look it up
CartRowsOf(db_user, product_id) ==
    {c \in cartItems : c.user_id = db_user.id /\ c.product_id = product_id}

\* PATCH /cart/update: 404 without a users row or without a cart row (nothing
\* changes); a quantity above 0 is stored, any other quantity deletes the row
UpdateCart(sub, product_id, quantity) ==
    /\ \E db_user \in {u \in UserRows : u.clerk_id = sub} :
        \E cart_item \in CartRowsOf(db_user, product_id) :
            /\ ~RowsLocked("none", {cart_item.id})
            /\ cartItems' = IF quantity > 0
                            THEN (cartItems \ {cart_item}) \cup
                                 {[cart_item EXCEPT !.quantity = quantity]}
                            ELSE cartItems \ {cart_item}
    /\ UNCHANGED <<nextCartId, adds, orders, orderItems, nextOrderId, req,
                   lastResponse, calls, scheduled, emailLog, emailIn, emailOut,
                   statusVars, prefVars, readVars, taskVars, intentVars>>

\* DELETE /cart/remove/{product_id}: 404 without a users row or without a
\* cart row (nothing changes); the row found is deleted
RemoveFromCart(sub, product_id) ==
    /\ \E db_user \in {u \in UserRows : u.clerk_id = sub} :
        \E cart_item \in CartRowsOf(db_user, product_id) :
            /\ ~RowsLocked("none", {cart_item.id})
            /\ cartItems' = cartItems \ {cart_item}
    /\ UNCHANGED <<nextCartId, adds, orders, orderItems, nextOrderId, req,
                   lastResponse, calls, scheduled, emailLog, emailIn, emailOut,
                   statusVars, prefVars, readVars, taskVars, intentVars>>

NextCart ==
    \/ \E sub \in Subs, product_id \in Products, quantity \in CartQuantities :
          AddToCart(sub, product_id, quantity)
    \/ \E sub \in Subs, product_id \in Products, quantity \in CartQuantities :
          UpdateCart(sub, product_id, quantity)
    \/ \E sub \in Subs, product_id \in Products :
          RemoveFromCart(sub, product_id)

SpecCart == Init /\ [][NextCart]_vars

\* ---------------------------------------------------------------------------
\* The payment intent route

\* PaymentIntentRequest.amount, in cents, as the client sends it
ClientAmounts == {100, 3660}

\* the quantities the carts of the route are filled with
IntentQuantities == {1, 5}

\* 15 if subtotal < 100 else 0, the subtotal in cents and the result a Float
IntentShipping(subtotal) == IF subtotal < 10000 THEN Float(1500) ELSE 0

\* total = subtotal + tax + shipping of create_payment_intent, a Float
IntentTotal(cart) ==
    Float(SumLines(cart)) + Tax(SumLines(cart)) + IntentShipping(SumLines(cart))

\* POST /payment/create-intent: without a users row or with an empty cart no
\* intent is created (the HTTPException ends in the handler's except
\* Exception); otherwise the total of the cart is computed and logged, and
\* stripe.PaymentIntent.create is called with amount=request.amount
CreatePaymentIntent(sub, amount) ==
    /\ \E db_user \in {u \in UserRows : u.clerk_id = sub} :
        LET cart_items == {c \in cartItems : c.user_id = db_user.id}
        IN  /\ cart_items # {}
            /\ intents' = intents \cup
                  {[user_id |-> sub, cart_items |-> cart_items,
                    total |-> IntentTotal(cart_items), amount |-> amount]}
    /\ UNCHANGED <<cartItems, nextCartId, adds, orders, orderItems, nextOrderId,
                   req, lastResponse, calls, scheduled, emailLog, emailIn,
                   emailOut, statusVars, prefVars, readVars, taskVars>>

NextIntent ==
    \/ \E sub \in Subs, product_id \in Products, quantity \in IntentQuantities :
          AddToCart(sub, product_id, quantity)
    \/ \E sub \in Subs, amount \in ClientAmounts :
          CreatePaymentIntent(sub, amount)

SpecIntent == Init /\ [][NextIntent]_vars

\* ---------------------------------------------------------------------------
\* The notification tasks of the status requests

\* the status requests and the notification tasks they leave on the event loop
NextTasks ==
    \/ NextStatus
    \/ \E t \in tasks : RunNotificationTask(t)

SpecTasks == InitStatus /\ [][NextTasks]_vars

----------------------------------------------------------------------------
\* The requests that read orders: routes/payment.py, routes/order.py and
\* routes/admin.py.

\* the variables a read leaves alone
tableVars ==
    <<cartItems, nextCartId, adds, orders, orderItems, nextOrderId, req,
      lastResponse, calls, scheduled, emailLog, emailIn, emailOut, statusVars,
      prefVars, taskVars, intentVars>>

\* the answer to a request that reads orders; returned holds the ids of the
\* orders in the body, caller is the subject of the token, "None" without one
ReadAnswer(op, caller, admin, status_code, returned) ==
    [op |-> op, caller |-> caller, admin |-> admin,
     status_code |-> status_code, returned |-> returned]

\* .order_by(Order.created_at.desc()).first(): ids grow with created_at
MostRecent(rows) == {o \in rows : \A p \in rows : p.id <= o.id}

\* the order_number path parameter of GET /payment/orders/{order_number}
OrderNumbers == {OrderNumber(PI_A), OrderNumber(PI_C)}

\* GET /payment/orders/{order_number}
GetOrder(sub, order_number) ==
    /\ LET found == {o \in orders : o.order_number = order_number}
       IN  IF found = {}
           THEN readOut' = ReadAnswer("get_order", sub, FALSE, 404, {})
           ELSE \E order \in found :
                IF order.user_id # sub
                THEN readOut' = ReadAnswer("get_order", sub, FALSE, 403, {})
                ELSE readOut' = ReadAnswer("get_order", sub, FALSE, 200,
                                           {order.id})
    /\ UNCHANGED tableVars

\* GET /api/orders/recent
GetRecentOrder(sub) ==
    /\ LET found == MostRecent({o \in orders : o.user_id = sub})
       IN  readOut' = IF found = {}
                      THEN ReadAnswer("get_recent_order", sub, FALSE, 404, {})
                      ELSE ReadAnswer("get_recent_order", sub, FALSE, 200,
                                      {o.id : o \in found})
    /\ UNCHANGED tableVars

\* GET /payment/orders
GetUserOrders(sub) ==
    /\ readOut' = ReadAnswer("get_user_orders", sub, FALSE, 200,
                             {o.id : o \in {p \in orders : p.user_id = sub}})
    /\ UNCHANGED tableVars

\* the email path parameter of GET /api/orders/guest/{email}
GuestEmailParams == {"guest@x", "nobody@x"}

\* the callers of a route that asks for no token
AnyCaller == Subs \cup {"None"}

\* GET /api/orders/guest/{email}: the route takes no token
GetGuestOrder(caller, email) ==
    /\ LET found == MostRecent({o \in orders : o.guest_email = email})
       IN  readOut' = IF found = {}
                      THEN ReadAnswer("get_guest_order", caller, FALSE, 404, {})
                      ELSE ReadAnswer("get_guest_order", caller, FALSE, 200,
                                      {o.id : o \in found})
    /\ UNCHANGED tableVars

ADMIN_EMAILS ==
    {"jonathan@jasonjewels.com", "jason@jasonjewels.com",
     "jyushuvayev98@gmail.com"}

\* what get_user_email_from_clerk answers for the caller
ClerkEmails == {"jason@jasonjewels.com", "a@db"}

\* GET /api/admin/orders
GetAllOrders(sub, clerk_email) ==
    /\ readOut' = IF clerk_email \notin ADMIN_EMAILS
                  THEN ReadAnswer("get_all_orders", sub, FALSE, 403, {})
                  ELSE ReadAnswer("get_all_orders", sub, TRUE, 200,
                                  {o.id : o \in orders})
    /\ UNCHANGED tableVars

NextRead ==
    \/ \E sub \in {"user_a", "None"}, items \in {{}, {<<2, 1>>}},
          guest_email \in GuestEmails :
          CreateCheckoutSession(sub, items, guest_email)
    \/ \E sub \in Subs, order_number \in OrderNumbers :
          GetOrder(sub, order_number)
    \/ \E sub \in Subs : GetRecentOrder(sub)
    \/ \E sub \in Subs : GetUserOrders(sub)
    \/ \E caller \in AnyCaller, email \in GuestEmailParams :
          GetGuestOrder(caller, email)
    \/ \E sub \in Subs, clerk_email \in ClerkEmails :
          GetAllOrders(sub, clerk_email)

SpecRead == InitStatus /\ [][NextRead]_vars

----------------------------------------------------------------------------
\* The notification preference operations: routes/notification_preferences.py
\* and services/notification_service.py.

\* the variables the notification operations leave alone
shopVars ==
    <<cartItems, nextCartId, adds, orders, orderItems, nextOrderId, req,
      lastResponse, calls, scheduled, emailLog, emailIn, emailOut, statusVars,
      readVars, taskVars, intentVars>>

\* the body a client sends when it leaves every field out
BaseRequest == DEFAULT_PREFERENCES

QuietWindow(enabled, start_time, end_time) ==
    [enabled |-> enabled, start_time |-> start_time, end_time |-> end_time,
     timezone |-> "America/New_York"]

SmsDoc(enabled, phone_number) ==
    [DEFAULT_PREFERENCES.sms_notifications EXCEPT
        !.enabled = enabled, !.phone_number = phone_number]

\* NotificationSettingsRequest bodies; a client's document is taken as sent,
\* so it may lack keys or be empty
PrefRequests ==
    { BaseRequest,
      [BaseRequest EXCEPT !.email_notifications = [order_updates |-> FALSE]],
      [BaseRequest EXCEPT !.email_notifications = EmptyDoc],
      [BaseRequest EXCEPT
          !.account_notifications =
              [security_alerts |-> FALSE, profile_updates |-> TRUE]],
      [BaseRequest EXCEPT !.quiet_hours = QuietWindow(TRUE, T2200, T0800)],
      [BaseRequest EXCEPT !.quiet_hours = QuietWindow(TRUE, T1400, T1600)],
      [BaseRequest EXCEPT !.quiet_hours = QuietWindow(TRUE, T2500, T0800)],
      [BaseRequest EXCEPT !.quiet_hours = QuietWindow(FALSE, T9pm, T0800)],
      [BaseRequest EXCEPT !.sms_notifications = SmsDoc(TRUE, NoPhone)],
      [BaseRequest EXCEPT !.sms_notifications = SmsDoc(TRUE, ShortPhone)],
      [BaseRequest EXCEPT
          !.sms_notifications =
              [SmsDoc(TRUE, GoodPhone) EXCEPT !.order_updates = TRUE]] }

ClockTime(hour, minute, second) ==
    [hour |-> hour, minute |-> minute, second |-> second]

\* readings of datetime.now()
ClockTimes ==
    { ClockTime(3, 0, 0), ClockTime(8, 0, 0), ClockTime(8, 0, 30),
      ClockTime(14, 0, 0), ClockTime(23, 30, 0) }

\* the Clerk ids that write preferences; user_b keeps no row
WritingSubs == {"user_a", "user_x"}

\* the users row of a Clerk id (get_user_by_clerk_id)
UserByClerkId(sub) == {u \in UserRows : u.clerk_id = sub}

\* POST /account/notification-preferences
UpdateNotificationPreferences(sub, data) ==
    /\ IF ~RequestAccepted(data)
       THEN /\ prefOut' = [op |-> "update", sub |-> sub, data |-> data,
                           status_code |-> 422]
            /\ UNCHANGED prefs
       ELSE IF UserByClerkId(sub) = {}
       THEN /\ prefOut' = [op |-> "update", sub |-> sub, data |-> data,
                           status_code |-> 404]
            /\ UNCHANGED prefs
       ELSE \E db_user \in UserByClerkId(sub) :
            /\ prefs' = [prefs EXCEPT
                            ![db_user.id] = PrefRow(ValidatePreferences(data))]
            /\ prefOut' = [op |-> "update", sub |-> sub, data |-> data,
                           status_code |-> 200]
    /\ UNCHANGED <<defaults, shopVars>>

\* get_user_preferences: result[category].update(stored) on the shallow copy
\* of DEFAULT_PREFERENCES writes into the nested documents of the class
MergedDefaults(row, default_prefs) ==
    [c \in DOMAIN default_prefs |->
        IF c \in Categories /\ NonEmpty(row[c])
        THEN Update(default_prefs[c], row[c])
        ELSE default_prefs[c]]

\* GET /account/notification-preferences
GetNotificationPreferences(sub) ==
    /\ IF UserByClerkId(sub) = {}
       THEN /\ prefOut' = [op |-> "get", sub |-> sub, status_code |-> 404]
            /\ UNCHANGED defaults
       ELSE \E db_user \in UserByClerkId(sub) :
            LET row == prefs[db_user.id]
            IN  IF ~row.exists
                THEN /\ prefOut' = [op |-> "get", sub |-> sub,
                                    status_code |-> 200,
                                    preferences |-> defaults]
                     /\ UNCHANGED defaults
                ELSE /\ defaults' = MergedDefaults(row, defaults)
                     /\ prefOut' =
                            [op |-> "get", sub |-> sub, status_code |-> 200,
                             preferences |->
                                [defaults' EXCEPT !.notification_frequency =
                                    row.notification_frequency]]
    /\ UNCHANGED <<prefs, shopVars>>

\* the category query parameter of the check endpoint
CheckCategories ==
    {"email_notifications", "account_notifications", "unknown_category"}

\* the notification_type path parameter of the check endpoint
CheckKeys ==
    {"order_confirmations", "order_updates", "security_alerts",
     "unknown_key"}

\* GET /account/notification-preferences/check/{notification_type}
CheckNotificationEnabled(sub, notification_type, category, current_time) ==
    /\ IF UserByClerkId(sub) = {}
       THEN prefOut' = [op |-> "check", sub |-> sub, status_code |-> 404]
       ELSE \E db_user \in UserByClerkId(sub) :
            LET is_allowed == CheckNotificationAllowed(prefs[db_user.id],
                                  defaults, notification_type, category)
                is_quiet_hours == IsQuietHoursActive(prefs[db_user.id],
                                                     current_time)
            IN  prefOut' =
                    [op |-> "check", sub |-> sub, status_code |-> 200,
                     user_id |-> db_user.id,
                     notification_type |-> notification_type,
                     category |-> category,
                     current_time |-> current_time,
                     enabled |-> is_allowed,
                     quiet_hours_active |-> is_quiet_hours,
                     should_send |-> is_allowed /\ ~is_quiet_hours]
    /\ UNCHANGED <<prefs, defaults, shopVars>>

\* DELETE /account/notification-preferences/reset, with
\* create_default_preferences
ResetNotificationPreferences(sub) ==
    /\ IF UserByClerkId(sub) = {}
       THEN /\ prefOut' = [op |-> "reset", sub |-> sub, status_code |-> 404]
            /\ UNCHANGED prefs
       ELSE \E db_user \in UserByClerkId(sub) :
            /\ prefs' = [prefs EXCEPT ![db_user.id] =
                            PrefRow([defaults EXCEPT
                                !.notification_frequency = "immediate"])]
            /\ prefOut' = [op |-> "reset", sub |-> sub, status_code |-> 200]
    /\ UNCHANGED <<defaults, shopVars>>

\* NotificationService.notification_mapping, the entries of four types
NotificationMapping ==
    [ORDER_CONFIRMATION |->
        [category |-> "email_notifications", key |-> "order_confirmations",
         channels |-> {"email", "sms"}, priority |-> "high",
         required |-> TRUE],
     ORDER_UPDATE |->
        [category |-> "email_notifications", key |-> "order_updates",
         channels |-> {"email", "sms"}, priority |-> "medium",
         required |-> FALSE],
     NEW_PRODUCT |->
        [category |-> "marketing_notifications", key |-> "new_products",
         channels |-> {"email"}, priority |-> "low", required |-> FALSE],
     SECURITY_ALERT |->
        [category |-> "account_notifications", key |-> "security_alerts",
         channels |-> {"email", "sms"}, priority |-> "critical",
         required |-> TRUE]]

NotificationTypes == DOMAIN NotificationMapping

\* key.replace("_notifications", "_alerts")
\*    .replace("_confirmations", "_notifications")
SmsKey(key) ==
    CASE key = "order_confirmations" -> "order_notifications"
      [] key = "shipping_notifications" -> "shipping_alerts"
      [] key = "delivery_confirmations" -> "delivery_notifications"
      [] OTHER -> key

\* NotificationPreferenceManager.get_sms_phone_number; NoPhone for None
GetSmsPhoneNumber(row) ==
    IF ~row.exists \/ ~NonEmpty(row.sms_notifications) THEN NoPhone
    ELSE IF Get(row.sms_notifications, "enabled", FALSE)
    THEN Get(row.sms_notifications, "phone_number", NoPhone)
    ELSE NoPhone

\* NotificationService._send_sms_notification
SendSmsNotification(row, default_prefs, config) ==
    IF GetSmsPhoneNumber(row) = NoPhone THEN "skipped"
    ELSE IF config.category # "email_notifications" THEN "skipped"
    ELSE IF ~CheckNotificationAllowed(row, default_prefs, SmsKey(config.key),
                                      "sms_notifications")
    THEN "skipped"
    ELSE "placeholder"

\* what EmailService.send_notification_email returns
EmailResults == {"success", "error"}

\* readings of datetime.now() while send_notification runs
SendClockTimes == {ClockTime(3, 0, 0), ClockTime(14, 0, 0)}

\* the user_id argument of send_notification; 3 has no users row
SendUserIds == UserIds \cup {3}

\* the answer of send_notification
SendAnswer(user_id, notification_type, override, current_time, outcome, email, sms) ==
    [op |-> "send", user_id |-> user_id,
     notification_type |-> notification_type,
     override_preferences |-> override, current_time |-> current_time,
     outcome |-> outcome, email |-> email, sms |-> sms]

\* NotificationService.send_notification
\* db = SessionLocal() stands inside the try, so where it raises the handler
\* returns the error and the finally clause then reads the unbound db: the
\* UnboundLocalError of db.close() leaves the coroutine
SendNotification(user_id, notification_type, override_preferences, current_time, email_result, session_opened) ==
    /\ LET config == NotificationMapping[notification_type]
           Answer(outcome, email, sms) ==
               SendAnswer(user_id, notification_type, override_preferences,
                          current_time, outcome, email, sms)
       IN  IF ~session_opened
           THEN prefOut' = Answer("raised", "none", "none")
           ELSE IF user_id \notin UserIds
           THEN prefOut' = Answer("error", "none", "none")
           ELSE LET row == prefs[user_id]
                    checked == ~override_preferences /\ ~config.required
                IN  IF checked
                       /\ ~CheckNotificationAllowed(row, defaults, config.key,
                                                    config.category)
                    THEN prefOut' = Answer("skipped", "none", "none")
                    ELSE IF checked /\ IsQuietHoursActive(row, current_time)
                            /\ config.priority \notin {"high", "critical"}
                    THEN prefOut' = Answer("delayed", "none", "none")
                    ELSE prefOut' =
                            Answer("success", email_result,
                                   IF "sms" \in config.channels
                                   THEN SendSmsNotification(row, defaults,
                                                            config)
                                   ELSE "none")
    /\ UNCHANGED <<prefs, defaults, shopVars>>

\* the operations that write the table or the class-level defaults
PrefWrites ==
    \/ \E sub \in WritingSubs, data \in PrefRequests :
          UpdateNotificationPreferences(sub, data)
    \/ \E sub \in Subs : GetNotificationPreferences(sub)
    \/ \E sub \in WritingSubs : ResetNotificationPreferences(sub)

\* the routes of /account/notification-preferences
NextPrefs ==
    \/ PrefWrites
    \/ \E sub \in Subs, notification_type \in CheckKeys,
          category \in CheckCategories, current_time \in ClockTimes :
          CheckNotificationEnabled(sub, notification_type, category,
                                   current_time)

\* the notification service beside the routes that write what it reads
NextNotify ==
    \/ PrefWrites
    \/ \E user_id \in SendUserIds, notification_type \in NotificationTypes,
          override_preferences \in BOOLEAN, current_time \in SendClockTimes,
          email_result \in EmailResults, session_opened \in BOOLEAN :
          SendNotification(user_id, notification_type, override_preferences,
                           current_time, email_result, session_opened)

SpecPrefs == Init /\ [][NextPrefs]_vars

SpecNotify == Init /\ [][NextNotify]_vars

----------------------------------------------------------------------------
\* Properties of submit_order

\* the steps of request r
Received(r) == req[r].pc = "idle" /\ req'[r].pc # "idle"
Answered(r) == req[r].pc # "idle" /\ req'[r].pc = "idle"
Raised(r) == req[r].pc # "except" /\ req'[r].pc = "except"

TablesUnchanged == UNCHANGED <<orders, orderItems, cartItems>>

\* C1: whatever the sequence or interleaving of submit_order calls and cart
\* additions, no two Order rows carry the same payment intent id.
OneOrderPerIntent ==
    \A o1, o2 \in orders :
        o1.stripe_payment_intent_id = o2.stripe_payment_intent_id
            => o1.id = o2.id

\* a second submission of an intent whose Order is committed was refused
OneOrderPerIntentWitness ==
    \E r \in Reqs :
        /\ req[r].pc = "except"
        /\ req[r].exc = At(DBError("IntegrityError"), 237)
        /\ \E o \in orders : \E p \in req[r].order :
              o.stripe_payment_intent_id = p.stripe_payment_intent_id

\* C2: a call whose payment intent is retrieved with a status other than
\* 'succeeded' raises the payment-not-successful error at once, is answered
\* with a failure carrying that error, and none of its steps changes an
\* orders, order_items or cart_items row.
PaymentNotConfirmedFails ==
    [][\A r \in Reqs :
          /\ (Received(r) /\ req'[r].intent_status \notin {"None", "succeeded"})
                => /\ req'[r].pc = "except"
                   /\ req'[r].exc =
                         At(HTTPException(400, "Payment not successful"), 130)
                   /\ req'[r].txn = EmptyTxn
                   /\ TablesUnchanged
          /\ (Answered(r) /\ req[r].intent_status \notin {"None", "succeeded"})
                => /\ ~lastResponse'.success
                   /\ lastResponse'.cause = "Payment not successful"
                   /\ TablesUnchanged]_vars

\* an unconfirmed payment was refused while the caller had a cart
PaymentNotConfirmedWitness ==
    \E r \in Reqs :
        /\ req[r].pc = "except"
        /\ req[r].intent_status = "requires_action"
        /\ UserCart(req[r].user_id) # {}

OrderCreationAllOrNothing ==
    [][\A r \in Reqs :
          /\ (Raised(r) /\ req[r].pc \in {"flush", "items", "commit"})
                => TablesUnchanged
          /\ (Answered(r) /\ req[r].exc.lineno \in {237, 264, 268})
                => /\ TablesUnchanged
                   /\ req[r].txn.orders \cap orders' = {}
                   /\ req[r].txn.items \cap orderItems' = {}
                   /\ \A o \in req[r].order : \A i \in orderItems' :
                         o.id # 0 => i.order_id # o.id
                   /\ req[r].txn.deleted \subseteq {c.id : c \in cartItems'}]_vars

\* a call failed part-way through the items of a two-line cart
OrderCreationAllOrNothingWitness ==
    \E r \in Reqs :
        /\ req[r].pc = "except"
        /\ Cardinality(req[r].cart_items) = 2
        /\ Cardinality(req[r].txn.items) = 1
        /\ req[r].txn.orders # {}

\* the cart rows of a user, in a given cart_items table
CartOf(table, user_id) == {c \in table : c.user_id = user_id}

\* C5: the commit of a call removes every cart row its user had when the
\* call cleared the cart and no cart row of another user, and a call that is
\* answered with a failure has removed no cart row.
CartClearedExactlyOnSuccess ==
    [][\A r \in Reqs :
          /\ (req[r].pc = "commit" /\ req'[r].pc = "notify")
                => /\ \A c \in CartOf(cartItems', req[r].user_id) :
                         c.id \notin req[r].txn.deleted
                   /\ \A c \in req[r].cart_items : c \notin cartItems'
                   /\ \A c \in cartItems :
                         c.user_id # req[r].user_id => c \in cartItems'
          /\ (Answered(r) /\ ~lastResponse'.success)
                => /\ req[r].cleared = {}
                   /\ UNCHANGED cartItems]_vars

RECURSIVE LineSum(_)
\* the sum of unit_price * quantity over a set of order_items rows
LineSum(rows) ==
    IF rows = {} THEN 0
    ELSE LET i == CHOOSE x \in rows : TRUE
         IN  i.unit_price * i.quantity + LineSum(rows \ {i})

ItemsOf(order_id) == {i \in orderItems : i.order_id = order_id}

\* C6: every committed Order has subtotal equal to the sum, over its lines, of
\* the product's price times the quantity, and total_price equal to
\* subtotal + tax_amount + shipping_amount - discount_amount.
OrderTotalsCorrect ==
    \A o \in orders :
        /\ \A i \in ItemsOf(o.id) :
              i.unit_price = Float(ProductPrice[i.product_id])
        /\ o.subtotal = LineSum(ItemsOf(o.id))
        /\ o.total_price =
              o.subtotal + o.tax_amount + o.shipping_amount - o.discount_amount

\* an Order with a line of two units and a shipping charge is committed
OrderTotalsCorrectWitness ==
    \E o \in orders :
        /\ o.shipping_amount > 0
        /\ \E i \in ItemsOf(o.id) : i.quantity = 2

\* the contents of an Order: product, price and quantity of each line
LinesOf(order_id) ==
    {<<i.product_id, i.unit_price, i.quantity>> : i \in ItemsOf(order_id)}

\* C7: two committed Orders made from identical cart contents at identical
\* product prices store the same subtotal, tax_amount, shipping_amount and
\* total_price, whatever their request bodies were.
AmountsIndependentOfRequestBody ==
    \A o1, o2 \in orders :
        LinesOf(o1.id) = LinesOf(o2.id)
            => /\ o1.subtotal = o2.subtotal
               /\ o1.tax_amount = o2.tax_amount
               /\ o1.shipping_amount = o2.shipping_amount
               /\ o1.total_price = o2.total_price

\* the sources of the confirmation address, in the order of the chain
Candidates(in) ==
    <<in.user.email, in.user.email_address, in.user.emailAddress,
      in.user.primaryEmailAddress,
      IF in.user.email_addresses # <<>>
      THEN in.user.email_addresses[1].email_address ELSE "None",
      in.db_email,
      in.shipping_address.email, in.shipping_address.email_address,
      in.billing_address.email, in.billing_address.email_address>>

\* C8: the resolved address is the first non-empty one among the identity,
\* database user, shipping-address and billing-address e-mails taken in that
\* order, and is empty when none of them is non-empty; so a billing e-mail is
\* taken when it is the only one, and never replaces an earlier one.
EmailFallbackChain ==
    emailOut # "unset" =>
        LET c == Candidates(emailIn)
            filled == {k \in DOMAIN c : Truthy(c[k])}
        IN  IF filled = {}
            THEN ~Truthy(emailOut)
            ELSE \E k \in filled :
                    /\ \A j \in filled : k <= j
                    /\ emailOut = c[k]

\* only the billing address carried an e-mail and it was resolved
EmailFallbackChainWitness ==
    /\ emailOut = "b1@bill"
    /\ emailIn.db_email = ""
    /\ emailIn.user = PlainToken
    /\ emailIn.shipping_address = PlainAddress

\* C9: a call that reaches the notification step has its Order committed;
\* when it resolved no e-mail it is answered with success, schedules no
\* confirmation e-mail, stores confirmation_email_sent = false and returns
\* confirmation_email_sent = false; and a returned flag of true implies a
\* resolved e-mail.
NoEmailStillOrders ==
    [][\A r \in Reqs :
          req[r].pc = "notify" =>
            /\ \A o \in req[r].order : \E p \in orders : p.id = o.id
            /\ Answered(r) =>
                  /\ lastResponse'.success
                  /\ \A o \in req[r].order : \E p \in orders' : p.id = o.id
                  /\ ~Truthy(req[r].customer_email) =>
                        /\ UNCHANGED scheduled
                        /\ ~lastResponse'.confirmation_email_sent
                        /\ \A o \in req[r].order : \A p \in orders' :
                              p.id = o.id => ~p.confirmation_email_sent
                  /\ lastResponse'.confirmation_email_sent =>
                        Truthy(req[r].customer_email)]_vars

\* an order without any resolved e-mail was placed and answered
NoEmailStillOrdersWitness ==
    /\ lastResponse.success
    /\ lastResponse.customer_email = "Not provided"
    /\ ~lastResponse.confirmation_email_sent
    /\ \E o \in orders :
          /\ o.id = lastResponse.order_id
          /\ ~Truthy(o.customer_email)
          /\ ~o.confirmation_email_sent

\* C10: a confirmation e-mail that could not be scheduled leaves the Order
\* committed, the call answered with success and confirmation_email_sent
\* false; a confirmation e-mail whose delivery failed leaves every Order in
\* place and the confirmation_email_sent of its Order false.
EmailFailureRecorded ==
    [][/\ \A r \in Reqs :
            (/\ req[r].pc = "notify"
             /\ Answered(r)
             /\ Truthy(req[r].customer_email)
             /\ scheduled' = scheduled)
                => /\ lastResponse'.success
                   /\ \A o \in req[r].order : \E p \in orders' :
                         p.id = o.id /\ ~p.confirmation_email_sent
       /\ \A e \in emailLog' \ emailLog :
            ~e.success
                => /\ \A o \in orders : \E p \in orders' : p.id = o.id
                   /\ \A p \in orders' :
                         p.order_number = e.order_number
                             => ~p.confirmation_email_sent]_vars

\* C11: committed Orders carry pairwise different order numbers, and a call
\* is never refused for a collision of its order number with an existing one
\* unless its own payment intent already has an Order: the number of an
\* intent that merely shares its last characters with a used one is
\* regenerated and the call still yields an Order.
OrderNumberRegenerated ==
    /\ \A o1, o2 \in orders : o1.order_number = o2.order_number => o1.id = o2.id
    /\ \A r \in Reqs :
          (req[r].pc = "except" /\ req[r].exc.detail = "IntegrityError")
              => \E o \in orders : \E p \in req[r].order :
                    o.stripe_payment_intent_id = p.stripe_payment_intent_id

\* C12: a call refused for an empty cart or an unconfirmed payment is
\* answered with a 4xx status carrying that reason, never with a 5xx status.
InputErrorsAre4xx ==
    [][\A r \in Reqs :
          (/\ Answered(r)
           /\ req[r].exc.detail \in {"Cart is empty", "Payment not successful"})
              => /\ lastResponse'.status_code \in 400..499
                 /\ lastResponse'.cause = req[r].exc.detail]_vars

----------------------------------------------------------------------------
\* Properties of the order status operations

LifecycleStatuses ==
    {"pending", "confirmed", "processing", "shipped", "delivered",
     "cancelled", "failed"}

\* the position of a status on pending -> confirmed -> ... -> delivered
Rank(status) ==
    CASE status = "pending" -> 1 [] status = "confirmed" -> 2
      [] status = "processing" -> 3 [] status = "shipped" -> 4
      [] status = "delivered" -> 5 [] OTHER -> 0

LifecycleMove(from, to) ==
    \/ from = to
    \/ Rank(from) > 0 /\ Rank(from) < Rank(to)
    \/ Rank(from) \in 1..4 /\ to \in {"cancelled", "failed"}

\* C13: whatever status operation runs, every order keeps a status among
\* pending, confirmed, processing, shipped, delivered, cancelled and failed,
\* and its status only stays, moves forward along pending -> confirmed ->
\* processing -> shipped -> delivered, or becomes cancelled or failed from a
\* status before delivered; no operation moves an order out of delivered.
StatusFollowsLifecycle ==
    [][\A o \in orders : \A p \in orders' :
          p.id = o.id
              => /\ p.status \in LifecycleStatuses
                 /\ LifecycleMove(o.status, p.status)]_vars

\* C14: every change of an order's status to shipped leaves shipped_at set,
\* every change to delivered leaves delivered_at set, and a change to any
\* other status leaves shipped_at and delivered_at as they were.
StatusTimestampsStamped ==
    [][\A o \in orders : \A p \in orders' :
          (p.id = o.id /\ p.status # o.status)
              => /\ p.status = "shipped" => p.shipped_at # 0
                 /\ p.status = "delivered" => p.delivered_at # 0
                 /\ p.status \notin {"shipped", "delivered"}
                       => /\ p.shipped_at = o.shipped_at
                          /\ p.delivered_at = o.delivered_at]_vars

\* C15: the webhook's handling of checkout.session.completed for an existing
\* order leaves that order with payment_status completed and status
\* confirmed, both set by the same step.
WebhookConfirmsTogether ==
    [][\A order_id \in OrderIds, user_id \in {"user_a", "guest"},
          amount_total \in AmountTotals :
          StripeWebhook(order_id, user_id, amount_total)
              => \A p \in orders' :
                    p.id = order_id
                        => /\ p.payment_status = "completed"
                           /\ p.status = "confirmed"]_vars

----------------------------------------------------------------------------
\* Properties of the notification preference operations

\* the check endpoint has answered for a user of the table
Checked == prefOut.op = "check" /\ prefOut.status_code = 200

\* the value the user's row holds for (category, key), where it holds one
HasStored(row, category, key) ==
    /\ row.exists
    /\ category \in Categories
    /\ key \in DOMAIN row[category]

\* the system default for (category, key); FALSE for a key unknown to it
SystemDefault(category, key) ==
    Get(Get(DEFAULT_PREFERENCES, category, EmptyDoc), key, FALSE)

\* C16: check_notification_allowed answers the stored boolean when the
\* user's row has the key set in the category, and otherwise (no row, empty
\* category, key absent from the stored document) the system default for
\* (category, key), which is false for a key unknown to both.
ResolveStoredElseDefault ==
    Checked =>
        LET row == prefs[prefOut.user_id]
            category == prefOut.category
            key == prefOut.notification_type
        IN  prefOut.enabled =
                IF HasStored(row, category, key)
                THEN row[category][key]
                ELSE SystemDefault(category, key)

\* (category, key) is one of the required pairs
IsRequired(category, key) ==
    /\ category \in DOMAIN REQUIRED_NOTIFICATIONS
    /\ key \in REQUIRED_NOTIFICATIONS[category]

\* C17: for every required (category, key) pair the preference resolves to
\* true, whatever the user's stored document holds for it.
RequiredResolvesTrue ==
    (Checked /\ IsRequired(prefOut.category, prefOut.notification_type))
        => prefOut.enabled

\* the time of day a well-formed HH:MM string names, in seconds
TimeNamed(s) ==
    CASE s = T2200 -> 22 * 3600
      [] s = T0800 -> 8 * 3600
      [] s = T1400 -> 14 * 3600
      [] s = T1600 -> 16 * 3600

WellFormedTimes == {T2200, T0800, T1400, T1600}

\* the user's row holds an enabled quiet-hours window with well-formed times
EnabledWindow(row) ==
    /\ row.exists
    /\ "enabled" \in DOMAIN row.quiet_hours
    /\ row.quiet_hours.enabled
    /\ row.quiet_hours.start_time \in WellFormedTimes
    /\ row.quiet_hours.end_time \in WellFormedTimes

\* the row holds no quiet-hours window that is switched on
QuietHoursOff(row) ==
    \/ ~row.exists
    \/ "enabled" \notin DOMAIN row.quiet_hours
    \/ ~row.quiet_hours.enabled

\* C18: for an enabled quiet-hours window with well-formed start and end and
\* a time of day t, is_quiet_hours_active is true exactly when t >= start or
\* t <= end if start > end (the window spans midnight), and exactly when
\* start <= t <= end otherwise; with quiet hours disabled or no preference
\* row it is false for every t.
QuietHoursWindow ==
    Checked =>
        LET row == prefs[prefOut.user_id]
            t == prefOut.current_time.hour * 3600
                 + prefOut.current_time.minute * 60
                 + prefOut.current_time.second
        IN  /\ QuietHoursOff(row) => ~prefOut.quiet_hours_active
            /\ EnabledWindow(row) =>
                  LET start == TimeNamed(row.quiet_hours.start_time)
                      end == TimeNamed(row.quiet_hours.end_time)
                  IN  prefOut.quiet_hours_active =
                          IF start > end
                          THEN t >= start \/ t <= end
                          ELSE start <= t /\ t <= end

\* a check at 23:30 for a user whose window 22:00-08:00 is enabled reports
\* the quiet hours active
QuietHoursWindowWitness ==
    /\ Checked
    /\ EnabledWindow(prefs[prefOut.user_id])
    /\ prefs[prefOut.user_id].quiet_hours.start_time = T2200
    /\ prefs[prefOut.user_id].quiet_hours.end_time = T0800
    /\ prefOut.current_time = ClockTime(23, 30, 0)
    /\ prefOut.quiet_hours_active

\* the decision of the check endpoint
CheckDecisionRule ==
    Checked =>
        prefOut.should_send =
            IF IsRequired(prefOut.category, prefOut.notification_type)
            THEN TRUE
            ELSE prefOut.enabled /\ ~prefOut.quiet_hours_active

\* the decision of send_notification for a user of the table, the caller
\* not overriding the preferences and the session having opened
SendDecisionRule ==
    (/\ prefOut.op = "send"
     /\ prefOut.outcome # "raised"
     /\ prefOut.user_id \in UserIds
     /\ ~prefOut.override_preferences)
        => LET config == NotificationMapping[prefOut.notification_type]
               row == prefs[prefOut.user_id]
           IN  (prefOut.outcome = "success") =
                   IF config.required THEN TRUE
                   ELSE /\ CheckNotificationAllowed(row, defaults, config.key,
                                                    config.category)
                        /\ ~IsQuietHoursActive(row, prefOut.current_time)

\* C19: wherever a send decision is made (the check endpoint and
\* send_notification), should_send is resolve(category, key) and not
\* quiet-hours-active, except that a required notification is sent whatever
\* the stored preference and the quiet hours.
SendDecision == CheckDecisionRule /\ SendDecisionRule

\* the update route has answered a request of a user of the table
Updated == prefOut.op = "update" /\ UserByClerkId(prefOut.sub) # {}

\* the digits of a phone number
DigitsOf(phone) == SelectSeq(phone, LAMBDA c : c \in Digits)

\* C20: an update with a malformed sub-field is normalized and stored, not
\* rejected: the request succeeds, an SMS-enabled document whose phone number
\* has fewer than 10 digits is stored with SMS disabled, and a quiet-hours
\* start or end that is not HH:MM in 24-hour form is stored as the default
\* (22:00 / 08:00).
MalformedNormalizedAndStored ==
    Updated =>
        \A db_user \in UserByClerkId(prefOut.sub) :
            LET row == prefs[db_user.id]
                data == prefOut.data
            IN  /\ prefOut.status_code = 200
                /\ row.exists
                /\ (/\ data.sms_notifications.enabled
                    /\ Len(DigitsOf(data.sms_notifications.phone_number))
                          < MinPhoneLen)
                      => ~row.sms_notifications.enabled
                /\ data.quiet_hours.start_time \notin WellFormedTimes
                      => row.quiet_hours.start_time = T2200
                /\ data.quiet_hours.end_time \notin WellFormedTimes
                      => row.quiet_hours.end_time = T0800

----------------------------------------------------------------------------
\* Properties of the notification service

\* send_notification has run
Sent == prefOut.op = "send"

\* C21: channel failures in send_notification are contained: a failure on
\* one channel is recorded under that channel in the result map, delivery is
\* still attempted on every other channel, and no exception leaves
\* send_notification under any failure, the failure to open the database
\* session included.
ChannelFailuresContained ==
    Sent =>
        LET config == NotificationMapping[prefOut.notification_type]
        IN  /\ prefOut.outcome # "raised"
            /\ (prefOut.outcome = "success" /\ prefOut.email = "error")
                  => \A channel \in config.channels \ {"email"} :
                        prefOut[channel] # "none"

----------------------------------------------------------------------------
\* Properties of the requests that read orders

\* the caller owns the order: the caller is authenticated as its user_id
OwnedBy(order, caller) == caller # "None" /\ order.user_id = caller

\* C22: an order is readable through GET /payment/orders/{order_number}
\* only by the authenticated user whose identity equals its user_id, every
\* other authenticated user gets 403, and no endpoint returns an order to a
\* caller who is neither its owner nor an admin.
OrdersReadByOwnerOnly ==
    /\ readOut.op = "get_order" =>
          /\ readOut.status_code \in {200, 403, 404}
          /\ readOut.status_code = 200 =>
                \A o \in orders : o.id \in readOut.returned
                                     => OwnedBy(o, readOut.caller)
    /\ (readOut.op # "none" /\ readOut.status_code = 200) =>
          \A o \in orders :
              o.id \in readOut.returned
                  => OwnedBy(o, readOut.caller) \/ readOut.admin

\* ---------------------------------------------------------------------------
\* Properties of the deferred notification work

\* C23: a notification task never reads through the session of a request
\* whose handler has returned: the task works on a context of its own
TasksUseOwnContext ==
    taskLog.ran => taskLog.session \notin endedRequests

\* ---------------------------------------------------------------------------
\* Properties of the cart routes

\* C24: whatever add_to_cart, update_cart and remove_from_cart have done, a
\* user's cart holds at most one row for a product and every row has a
\* quantity of at least 1
CartRowsUniqueAndPositive ==
    /\ \A c, d \in cartItems :
          (c.user_id = d.user_id /\ c.product_id = d.product_id) => c = d
    /\ \A c \in cartItems : c.quantity >= 1

\* ---------------------------------------------------------------------------
\* Properties of paid orders

\* the financial fields of an Order row
Financials(o) ==
    <<o.subtotal, o.tax_amount, o.shipping_amount, o.discount_amount,
      o.total_price>>

\* C25: no step changes the subtotal, tax_amount, shipping_amount,
\* discount_amount, total_price or the OrderItems of an order whose
\* payment_status is completed
PaidOrderFrozen ==
    [][\A o \in orders : o.payment_status = "completed" =>
          /\ \E p \in orders' : p.id = o.id /\ Financials(p) = Financials(o)
          /\ {i \in orderItems' : i.order_id = o.id} =
             {i \in orderItems : i.order_id = o.id}]_vars

\* a paid order an admin has moved to shipped, beside a checkout order the
\* webhook has completed and priced
PaidOrderFrozenWitness ==
    \E o, p \in orders :
        /\ o.payment_status = "completed"
        /\ o.status = "shipped"
        /\ Financials(o) = Financials(PlacedOrder)
        /\ p.payment_status = "pending"
        /\ p.status = "completed"
        /\ p.total_price = Float(1500)

\* ---------------------------------------------------------------------------
\* Properties of the default preferences

\* the row create_default_preferences is meant to store
OriginalDefaultRow ==
    PrefRow([DEFAULT_PREFERENCES EXCEPT !.notification_frequency = "immediate"])

\* C26: once reset_notification_preferences has answered 200, the user's one
\* row equals the original system defaults, whatever was stored or read before
ResetRestoresOriginalDefaults ==
    (prefOut.op = "reset" /\ prefOut.status_code = 200) =>
        \A db_user \in UserByClerkId(prefOut.sub) :
            prefs[db_user.id] = OriginalDefaultRow

\* C28: reading preferences leaves DEFAULT_PREFERENCES as it was, and a user
\* without a row is answered the original defaults by get_user_preferences
\* and by check_notification_allowed
DefaultsNeverChange ==
    /\ defaults = DEFAULT_PREFERENCES
    /\ (prefOut.op = "get" /\ prefOut.status_code = 200) =>
         \A db_user \in UserByClerkId(prefOut.sub) :
            ~prefs[db_user.id].exists =>
                prefOut.preferences = DEFAULT_PREFERENCES
    /\ (Checked /\ ~prefs[prefOut.user_id].exists) =>
         prefOut.enabled =
            SystemDefault(prefOut.category, prefOut.notification_type)

\* ---------------------------------------------------------------------------
\* Properties of the status history

\* the history rows a step appends for an order
AppendedFor(order_id) ==
    {h \in statusHistory' \ statusHistory : h.order_id = order_id}

\* C27: a step that changes an order's status appends exactly one history
\* row, from the old status to the new one; a step that leaves the status
\* appends none; no step modifies or removes a history row
StatusChangesAreLogged ==
    [][/\ statusHistory \subseteq statusHistory'
       /\ \A o \in orders : \A p \in orders' :
             p.id = o.id =>
                IF p.status # o.status
                THEN /\ Cardinality(AppendedFor(o.id)) = 1
                     /\ \A h \in AppendedFor(o.id) :
                           h.from_status = o.status /\ h.to_status = p.status
                ELSE AppendedFor(o.id) = {}]_vars

\* ---------------------------------------------------------------------------
\* Properties of concurrent submissions

\* C29: each cart row becomes OrderItems of at most one Order, however two
\* submit_order calls of the same user interleave
CartRowOrderedOnce ==
    \A i, j \in orderItems :
        i.cart_item_id = j.cart_item_id => i.order_id = j.order_id

\* ---------------------------------------------------------------------------
\* Properties of the payment intent route

\* C30: the amount of every PaymentIntent created is the total the server
\* computed for the caller's cart, so two intents created for the same cart
\* have the same amount whatever amounts the clients sent
IntentAmountIsCartTotal ==
    /\ \A i \in intents : Float(i.amount) = i.total
    /\ \A i, j \in intents :
          (i.user_id = j.user_id /\ i.cart_items = j.cart_items) =>
              i.amount = j.amount
====
